---- MODULE Spec2Model ----
(***************************************************************************)
(* Audio I/O and turn-coordination engine of the voice-chat client         *)
(* (hooks/useVoiceStreaming.tsx, utils/webSocketUtils, utils/audioUtils,   *)
(* the AudioProvider).  JavaScript is run-to-completion: one action of     *)
(* this model is one event-loop task (an event handler, a timer callback,  *)
(* the settling of a browser promise) together with the microtasks it      *)
(* triggers.  Handlers are operators from a state record to a state        *)
(* record; an action commits the record a handler returns.                 *)
(***************************************************************************)
EXTENDS Integers, Sequences, FiniteSets, TLC

\* ------------------------------------------------------------------ bounds
MaxFrames == 3      \* inbound binary frames delivered in one behaviour
MaxSessions == 2    \* calls of startRecording in one behaviour
MaxTimers == 1      \* enable timers (300 ms) pending at the same time
MaxCloseTimers == 2 \* close timers (100 ms) pending at the same time
MaxTranscript == 1  \* transcript pieces appended in one behaviour
MaxSessionFrames == 2  \* inbound binary frames in a behaviour of SpecSessions
FloatSpan == 40     \* float inputs examined on each side of -2, -1, 0, 1 and 2 (in 1/65536)
BufLen == 2         \* length of the analyser's byte buffer (128 in the browser)
MaxSamples == 2     \* 16-bit samples in a buffer handed to processAudioData

\* byte lengths of the inbound frames: empty, odd (undecodable), whole samples
FrameLens == {0, 3, 8000}

\* ------------------------------------------------------------------- state
VARIABLES
  mounted,                 \* the hook's component is mounted
  isSupported,             \* useState: browser support detected on mount
  isRecording,             \* useState
  isConnecting,            \* useState
  errorMessage,            \* useState ("" = none)
  statusMessage,           \* useState
  transcript,              \* useState: number of pieces appended
  isResponseProcessing,    \* useState: TRUE = gated (not Capturing)
  responseStatusMessage,   \* useState
  latencyReports,          \* setProcessingTime calls since the last recorded timestamp
  isPlayingAudio,          \* useState
  currentEmotion,          \* useState
  isAudioPlaying,          \* AudioProvider useState
  audioContextState,       \* AudioProvider: "none" | "suspended" | "running"
  webSocketRef,            \* useRef: 0 = null, else a connection
  audioStreamRef,          \* useRef: 0 = null, else a microphone stream
  audioProcessorRef,       \* useRef: 0 = null, else a script processor
  audioQueueRef,           \* useRef: sequence of frames [id, len]
  isPlayingRef,            \* useRef
  pendingResponseEnableRef,
  pendingResponseMessageRef,
  responseStartTimeRef,    \* useRef: TRUE = a timestamp is recorded
  isFirstAudioChunkRef,
  activeSourceNodes,       \* useRef: sequence of source nodes (frame ids)
  frames,                  \* per frame id: where the frame is (see FrameStates)
  resumeWaiters,           \* frames held by drain loops awaiting resume()
  started,                 \* history: ids of the frames in the order they started
  enableTimers,            \* pending 300 ms timers, each with its message
  closeTimers,             \* number of pending 100 ms close timers
  calls,                   \* per startRecording call: where its coroutine is
  conns,                   \* per connection: readyState and what was sent
  streams,                 \* per microphone stream: "none" | "live" | "stopped"
  trackStops,              \* per microphone stream: number of track.stop()
  processors,              \* per script processor: "none" | "live" | "disconnected"
  procDisconnects,         \* per script processor: number of disconnect()
  WEBSOCKET_URL,           \* the build's VITE_BACKEND_WS_URL: "ok" | "missing" | "malformed"
  scn,                     \* history: how far the inbound messages follow Scenario (-1 = not)
  latchedUpTo,             \* history: frames received when the last end_processing arrived
  lens,                    \* history: byte length of each frame received (-1 = not recorded)
  stopRan,                 \* history: stopRecording has run since the last startRecording
  responding,              \* history: start_processing arrived, no end_processing since
  pcmIn,                   \* audioUtils: an Int16Array handed to convertPCMToFloat32
  float32Data,             \* audioUtils: a Float32Array (see Float)
  pcmData,                 \* audioUtils: the Int16Array convertFloat32ToPCM returned
  lipReady,                \* Live2DCanvas: "no-model" | "no-analyser" | "ready"
  dataArrayRef,            \* Live2DCanvas useRef: the bytes of the last analysis
  currentLipSyncValueRef,  \* Live2DCanvas useRef: the smoothed value (in 1/LipUnit)
  ParamMouthOpenY,         \* the avatar's parameter as last written (in 1/LipUnit)
  rawValue,                \* history: valueToSet before smoothing, at the last analysis
  lastTick,                \* history: "none" | "idle" | "skipped" | "playing"
  audioContextOk,          \* LiveAudioProcessor: _audioContext is not null
  lastAudioValue,          \* LiveAudioProcessor: _lastAudioValue (a number, in 1/LipUnit)
  returned                 \* LiveAudioProcessor: what processAudioData returned last

hookVars ==
        <<mounted, isSupported, isRecording, isConnecting, errorMessage,
          statusMessage, transcript, isResponseProcessing, responseStatusMessage,
          latencyReports, isPlayingAudio, currentEmotion, isAudioPlaying,
          audioContextState, webSocketRef, audioStreamRef, audioProcessorRef,
          audioQueueRef, isPlayingRef, pendingResponseEnableRef,
          pendingResponseMessageRef, responseStartTimeRef, isFirstAudioChunkRef,
          activeSourceNodes, frames, resumeWaiters, started, enableTimers,
          closeTimers, calls, conns, streams, trackStops, processors,
          procDisconnects, WEBSOCKET_URL, scn, latchedUpTo, lens, stopRan,
          responding>>

pcmVars == <<pcmIn, float32Data, pcmData>>

lipVars == <<lipReady, dataArrayRef, currentLipSyncValueRef, ParamMouthOpenY,
             rawValue, lastTick>>

procVars == <<audioContextOk, lastAudioValue, returned>>

utilVars == <<pcmVars, lipVars, procVars>>

vars == <<hookVars, utilVars>>

\* The state as one record, and the commit of a record a handler returned.
Cur ==
  [mounted |-> mounted, isSupported |-> isSupported, isRecording |-> isRecording,
   isConnecting |-> isConnecting, errorMessage |-> errorMessage,
   statusMessage |-> statusMessage, transcript |-> transcript,
   isResponseProcessing |-> isResponseProcessing,
   responseStatusMessage |-> responseStatusMessage,
   latencyReports |-> latencyReports, isPlayingAudio |-> isPlayingAudio,
   currentEmotion |-> currentEmotion, isAudioPlaying |-> isAudioPlaying,
   audioContextState |-> audioContextState, webSocketRef |-> webSocketRef,
   audioStreamRef |-> audioStreamRef, audioProcessorRef |-> audioProcessorRef,
   audioQueueRef |-> audioQueueRef, isPlayingRef |-> isPlayingRef,
   pendingResponseEnableRef |-> pendingResponseEnableRef,
   pendingResponseMessageRef |-> pendingResponseMessageRef,
   responseStartTimeRef |-> responseStartTimeRef,
   isFirstAudioChunkRef |-> isFirstAudioChunkRef,
   activeSourceNodes |-> activeSourceNodes, frames |-> frames,
   resumeWaiters |-> resumeWaiters, started |-> started,
   enableTimers |-> enableTimers, closeTimers |-> closeTimers, calls |-> calls,
   conns |-> conns, streams |-> streams, trackStops |-> trackStops,
   processors |-> processors, procDisconnects |-> procDisconnects,
   WEBSOCKET_URL |-> WEBSOCKET_URL, scn |-> scn, latchedUpTo |-> latchedUpTo,
   lens |-> lens, stopRan |-> stopRan, responding |-> responding]

Commit(r) ==
  /\ mounted' = r.mounted
  /\ isSupported' = r.isSupported
  /\ isRecording' = r.isRecording
  /\ isConnecting' = r.isConnecting
  /\ errorMessage' = r.errorMessage
  /\ statusMessage' = r.statusMessage
  /\ transcript' = r.transcript
  /\ isResponseProcessing' = r.isResponseProcessing
  /\ responseStatusMessage' = r.responseStatusMessage
  /\ latencyReports' = r.latencyReports
  /\ isPlayingAudio' = r.isPlayingAudio
  /\ currentEmotion' = r.currentEmotion
  /\ isAudioPlaying' = r.isAudioPlaying
  /\ audioContextState' = r.audioContextState
  /\ webSocketRef' = r.webSocketRef
  /\ audioStreamRef' = r.audioStreamRef
  /\ audioProcessorRef' = r.audioProcessorRef
  /\ audioQueueRef' = r.audioQueueRef
  /\ isPlayingRef' = r.isPlayingRef
  /\ pendingResponseEnableRef' = r.pendingResponseEnableRef
  /\ pendingResponseMessageRef' = r.pendingResponseMessageRef
  /\ responseStartTimeRef' = r.responseStartTimeRef
  /\ isFirstAudioChunkRef' = r.isFirstAudioChunkRef
  /\ activeSourceNodes' = r.activeSourceNodes
  /\ frames' = r.frames
  /\ resumeWaiters' = r.resumeWaiters
  /\ started' = r.started
  /\ enableTimers' = r.enableTimers
  /\ closeTimers' = r.closeTimers
  /\ calls' = r.calls
  /\ conns' = r.conns
  /\ trackStops' = r.trackStops
  /\ procDisconnects' = r.procDisconnects
  /\ streams' = r.streams
  /\ processors' = r.processors
  /\ WEBSOCKET_URL' = r.WEBSOCKET_URL
  /\ scn' = r.scn
  /\ lens' = r.lens
  /\ stopRan' = r.stopRan
  /\ responding' = r.responding
  /\ latchedUpTo' = r.latchedUpTo
  /\ UNCHANGED utilVars

FrameIds == 1..MaxFrames
Sessions == 1..MaxSessions

\* Where a frame is: not yet received; in audioQueueRef; dequeued and held by a
\* drain loop that awaits resume(); its source node playing; its node stopped
\* and the ended event not yet delivered; done (ended, resolved as empty,
\* rejected, or dropped from the queue by a flush).  "stale" is "held" for a
\* frame that was held while an interruption was handled.  "reading" is a
\* frame received as a Blob whose arrayBuffer() promise is pending.
FrameStates ==
  {"new", "reading", "queued", "held", "stale", "playing", "halted", "done"}

NEUTRAL == "neutral"                      \* "중립"
UI_TEXT == "ui-text"   \* any status text the client itself writes (fixed literals)
IDLE_STATUS == UI_TEXT  \* '버튼을 누르고 말씀하세요.'
ERROR_TEXT == "error"   \* any non-empty errorMessage the client writes

\* ---------------------------------------------------------------- playback
\* variant: no timer is set
enableResponseProcessing_Never(s, message) == s

\* enableResponseProcessing (useVoiceStreaming.tsx 66-82): schedules the 300 ms
\* timer only while a microphone stream is held.
enableResponseProcessing(s, message) ==
  IF s.audioStreamRef # 0
  THEN [s EXCEPT !.enableTimers = Append(@, message)]
  ELSE s

\* clearAudio of the AudioProvider (constants/env.ts 278-282)
clearAudio(s) == [s EXCEPT !.isAudioPlaying = FALSE]

\* processingAudio of the AudioProvider (constants/env.ts 268-275)
processingAudio(s) == [s EXCEPT !.isAudioPlaying = TRUE]

\* the finally block of processAudioQueue (367-380)
Finally(s) ==
  LET s1 == clearAudio([s EXCEPT !.isPlayingRef = FALSE,
                                 !.isPlayingAudio = FALSE])
      s2 == [s1 EXCEPT !.currentEmotion = NEUTRAL]
  IN IF s2.pendingResponseEnableRef
     THEN enableResponseProcessing(s2, s2.pendingResponseMessageRef)
     ELSE s2

\* variant: an empty frame gets a source node like any other
Executor_NoEmptyCheck(s, f) ==
  LET s1 == processingAudio(s)
      s2 == IF s1.isFirstAudioChunkRef /\ s1.responseStartTimeRef
            THEN [s1 EXCEPT !.latencyReports = @ + 1,
                            !.isFirstAudioChunkRef = FALSE]
            ELSE s1
  IN IF f.len % 2 = 1
     THEN [st |-> [s2 EXCEPT !.frames[f.id] = "done"], out |-> "rejected"]
     ELSE [st |-> [s2 EXCEPT !.activeSourceNodes = Append(@, f.id),
                             !.frames[f.id] = "playing",
                             !.started = Append(@, f.id)],
           out |-> "started"]

\* The promise executor of playAudioChunk (244-336) for frame f, run once the
\* audio context is ready: the state after it and how the promise stands.
Executor(s, f) ==
  LET s1 == processingAudio(s)
      s2 == IF s1.isFirstAudioChunkRef /\ s1.responseStartTimeRef
            THEN [s1 EXCEPT !.latencyReports = @ + 1,
                            !.isFirstAudioChunkRef = FALSE]
            ELSE s1
  IN IF f.len = 0                 \* numberOfSamples <= 0: resolve()
     THEN [st |-> [s2 EXCEPT !.frames[f.id] = "done"], out |-> "resolved"]
     ELSE IF f.len % 2 = 1        \* getInt16 past the buffer end throws: reject
     THEN [st |-> [s2 EXCEPT !.frames[f.id] = "done"], out |-> "rejected"]
     ELSE [st |-> [s2 EXCEPT !.activeSourceNodes = Append(@, f.id),
                             !.frames[f.id] = "playing",
                             !.started = Append(@, f.id)],
           out |-> "started"]

RECURSIVE DrainLoop(_)
\* How a drain loop goes on once the promise of its playAudioChunk stands.
AfterChunk(s, out) ==
  IF out = "started" THEN s
  ELSE IF out = "resolved" THEN DrainLoop(s)
  ELSE Finally(s)

\* The while loop of processAudioQueue (349-362) from its test on, up to the
\* next suspension (a source node playing, resume() pending) or its end.
DrainLoop(s) ==
  IF s.audioQueueRef = <<>> THEN Finally(s)
  ELSE LET f == Head(s.audioQueueRef)
           s1 == [s EXCEPT !.audioQueueRef = Tail(@)]
       IN IF s1.audioContextState = "none"      \* playAudioChunk 233-236
          THEN Finally([s1 EXCEPT !.frames[f.id] = "done"])
          ELSE IF s1.audioContextState = "suspended"  \* audioUtils 44-45
          THEN [s1 EXCEPT !.resumeWaiters = Append(@, f),
                          !.frames[f.id] = "held"]
          ELSE LET e == Executor(s1, f) IN AfterChunk(e.st, e.out)

\* processAudioQueue (340-381)
processAudioQueue(s) ==
  IF s.isPlayingRef \/ s.audioQueueRef = <<>> THEN s
  ELSE DrainLoop([s EXCEPT !.isPlayingRef = TRUE, !.isPlayingAudio = TRUE])

\* variant: the frame is put at the head of the queue
EnqueueFrame_AtHead(s, f) ==
  processAudioQueue([s EXCEPT !.audioQueueRef = <<f>> \o @,
                              !.frames[f.id] = "queued"])

\* handleWebSocketMessage, ArrayBuffer branch (507-516)
EnqueueFrame(s, f) ==
  processAudioQueue([s EXCEPT !.audioQueueRef = Append(@, f),
                              !.frames[f.id] = "queued"])

Remove(seq, x) == SelectSeq(seq, LAMBDA y : y # x)

\* sourceNode.onended (312-322) and the continuation of the awaiting loop
OnEnded(s, id) ==
  DrainLoop([s EXCEPT !.activeSourceNodes = Remove(@, id),
                      !.frames[id] = "done"])

RECURSIVE RunExecutors(_, _, _)
\* the executors of the loops whose resume() resolved, in the order they waited
RunExecutors(s, ws, outs) ==
  IF ws = <<>> THEN [st |-> s, outs |-> outs]
  ELSE LET e == Executor(s, Head(ws))
       IN RunExecutors(e.st, Tail(ws), Append(outs, e.out))

RECURSIVE Continue(_, _)
Continue(s, outs) ==
  IF outs = <<>> THEN s ELSE Continue(AfterChunk(s, Head(outs)), Tail(outs))

RECURSIVE RejectAll(_, _)
RejectAll(s, ws) ==
  IF ws = <<>> THEN s
  ELSE RejectAll(Finally([s EXCEPT !.frames[Head(ws).id] = "done"]), Tail(ws))

\* audioContext.resume() settles (ensureAudioContextReady, audioUtils 38-53):
\* every waiting playAudioChunk goes on, or every one rejects.
OnResume(s, ok) ==
  LET s0 == [s EXCEPT !.resumeWaiters = <<>>]
  IN IF ok
     THEN LET r == RunExecutors([s0 EXCEPT !.audioContextState = "running"],
                                s.resumeWaiters, <<>>)
          IN Continue(r.st, r.outs)
     ELSE RejectAll(s0, s.resumeWaiters)

InSeq(seq, x) == \E k \in 1..Len(seq) : seq[k] = x

\* node.stop() on every node of activeSourceNodes, then the array is emptied
\* (211-220, 648-655)
StopNodes(s) ==
  [s EXCEPT !.frames = [i \in FrameIds |->
              IF @[i] = "playing" /\ InSeq(s.activeSourceNodes, i)
              THEN "halted" ELSE @[i]],
            !.activeSourceNodes = <<>>]

\* audioQueueRef.current = [] (167, 223)
ClearQueue(s) ==
  [s EXCEPT !.frames = [i \in FrameIds |-> IF @[i] = "queued" THEN "done" ELSE @[i]],
            !.audioQueueRef = <<>>]

\* variant: the queue is left as it is
handleInterruption_KeepQueue(s) ==
  LET s1 == StopNodes(s)
      s2 == [s1 EXCEPT !.frames = [i \in FrameIds |->
                          IF @[i] = "held" THEN "stale" ELSE @[i]]]
  IN [clearAudio(s2) EXCEPT !.currentEmotion = NEUTRAL]

\* handleInterruption (207-228)
handleInterruption(s) ==
  LET s1 == ClearQueue(StopNodes(s))
      s2 == [s1 EXCEPT !.frames = [i \in FrameIds |->
                          IF @[i] = "held" THEN "stale" ELSE @[i]]]
  IN [clearAudio(s2) EXCEPT !.currentEmotion = NEUTRAL]

\* ------------------------------------------------------- session lifecycle
\* stopAudioStream (153-173)
stopAudioStream(s) ==
  LET s1 == IF s.audioStreamRef # 0
            THEN [s EXCEPT !.trackStops[s.audioStreamRef] = @ + 1,
                           !.streams[s.audioStreamRef] = "stopped",
                           !.audioStreamRef = 0]
            ELSE s
      s2 == IF s1.audioProcessorRef # 0
            THEN [s1 EXCEPT !.procDisconnects[s1.audioProcessorRef] = @ + 1,
                            !.processors[s1.audioProcessorRef] = "disconnected",
                            !.audioProcessorRef = 0]
            ELSE s1
  IN clearAudio([ClearQueue(s2) EXCEPT !.isPlayingRef = FALSE])

IsOpen(s, c) == c # 0 /\ s.conns[c].readyState = "OPEN"

\* stopRecording (176-204)
stopRecording(s) ==
  LET s1 == IF IsOpen(s, s.webSocketRef)
            THEN [s EXCEPT !.conns[s.webSocketRef].disconnects = @ + 1,
                           !.closeTimers = @ + 1]
            ELSE stopAudioStream(s)
  IN [s1 EXCEPT !.isRecording = FALSE, !.statusMessage = IDLE_STATUS]

\* WebSocket.close() as the browser carries it out
CloseSocket(s, c) ==
  [s EXCEPT !.conns[c].closes = @ + 1,
            !.conns[c].readyState = IF @ \in {"CLOSED"} THEN @ ELSE "CLOSING"]

\* the 100 ms timer callback of stopRecording (189-194)
OnCloseTimer(s) ==
  LET s1 == [s EXCEPT !.closeTimers = @ - 1]
  IN IF IsOpen(s1, s1.webSocketRef) THEN CloseSocket(s1, s1.webSocketRef) ELSE s1

\* the 300 ms timer callback of enableResponseProcessing (68-80)
OnEnableTimer(s) ==
  LET message == Head(s.enableTimers)
      s1 == [s EXCEPT !.enableTimers = Tail(@)]
      s2 == IF s1.audioStreamRef # 0
            THEN [s1 EXCEPT !.isResponseProcessing = FALSE,
                            !.responseStatusMessage = "",
                            !.statusMessage = message,
                            !.responseStartTimeRef = FALSE,
                            !.isFirstAudioChunkRef = TRUE]
            ELSE s1
  IN [s2 EXCEPT !.pendingResponseEnableRef = FALSE]

\* startRecording after a failed setupAndStartStreaming (633-636)
StartFailed(s, i) ==
  [s EXCEPT !.isRecording = FALSE, !.statusMessage = UI_TEXT,
            !.calls[i] = "done"]

\* the catch block without its setIsConnecting(false)
CatchSetup_KeepsConnecting(s, i) ==
  StartFailed([s EXCEPT !.errorMessage = ERROR_TEXT], i)

\* the catch block of setupAndStartStreaming (602-620), then StartFailed
CatchSetup(s, i) ==
  StartFailed([s EXCEPT !.errorMessage = ERROR_TEXT, !.isConnecting = FALSE], i)

\* startRecording (624-637) up to the await of getUserMedia (549)
startRecording(s, i) ==
  LET s1 == [s EXCEPT !.transcript = 0, !.errorMessage = "",
                      !.isRecording = TRUE, !.statusMessage = UI_TEXT]
  IN IF ~s1.isSupported
     THEN StartFailed([s1 EXCEPT !.errorMessage = ERROR_TEXT], i)
     ELSE [s1 EXCEPT !.calls[i] = "awaitMic"]

\* setupWebSocket (384-402) and the code of setupAndStartStreaming before it
\* (566-569), run when setupEchoCancellationLoopback has returned
ConnectStep(s, i) ==
  LET s1 == [s EXCEPT !.isConnecting = TRUE, !.statusMessage = UI_TEXT]
  IN IF s1.WEBSOCKET_URL = "missing"
     THEN CatchSetup([s1 EXCEPT !.errorMessage = ERROR_TEXT,
                                !.isConnecting = FALSE], i)
     ELSE LET c == s1.webSocketRef
              s2 == IF c # 0 /\ s1.conns[c].readyState # "CLOSED"
                    THEN CloseSocket(s1, c) ELSE s1
          IN IF s2.WEBSOCKET_URL = "malformed"   \* new WebSocket throws
             THEN CatchSetup(s2, i)
             ELSE [s2 EXCEPT !.conns[i].readyState = "CONNECTING",
                             !.calls[i] = "awaitWs"]

\* getUserMedia resolved (549-561); setupEchoCancellationLoopback (85-150)
\* returns at once without an audio context and awaits the SDP exchange with one
OnMicGranted(s, i) ==
  LET s1 == [s EXCEPT !.audioStreamRef = i, !.streams[i] = "live"]
  IN IF s1.audioContextState = "none"
     THEN ConnectStep(s1, i)
     ELSE [s1 EXCEPT !.calls[i] = "awaitLoopback"]

\* getUserMedia rejected, and the setup going on to the connection all the same
OnMicDenied_Connects(s, i) ==
  ConnectStep([s EXCEPT !.errorMessage = ERROR_TEXT], i)

\* getUserMedia rejected
OnMicDenied(s, i) == CatchSetup(s, i)

\* ws.onopen (405-411), then setupAndStartStreaming goes on (571-600)
OnOpen(s, i) ==
  LET s1 == [s EXCEPT !.conns[i].readyState = "OPEN",
                      !.statusMessage = UI_TEXT,
                      !.isConnecting = FALSE,
                      !.webSocketRef = i]
  IN IF ~IsOpen(s1, s1.webSocketRef)
     THEN StartFailed(stopAudioStream(s1), i)
     ELSE [s1 EXCEPT !.audioProcessorRef = i, !.processors[i] = "live",
                     !.calls[i] = "done"]

\* ws.onerror (417-424); the rejection reaches the catch block only while
\* setupAndStartStreaming still awaits the connection
OnError(s, i) ==
  LET s1 == [s EXCEPT !.errorMessage = ERROR_TEXT, !.isConnecting = FALSE,
                      !.isRecording = FALSE, !.statusMessage = UI_TEXT]
  IN IF s1.calls[i] = "awaitWs" THEN CatchSetup(s1, i) ELSE s1

\* ws.onclose (427-437)
OnClose(s, i, wasClean) ==
  LET s1 == IF ~wasClean
            THEN [s EXCEPT !.errorMessage = ERROR_TEXT,
                           !.statusMessage = UI_TEXT]
            ELSE s
  IN stopAudioStream([s1 EXCEPT !.isRecording = FALSE, !.isConnecting = FALSE,
                                !.webSocketRef = 0])

\* The browser closes connection i: readyState CLOSED, an error event when the
\* connection failed, then the close event.
SocketClosed(s, i, how) ==
  LET s1 == [s EXCEPT !.conns[i].readyState = "CLOSED"]
      s2 == IF how = "failed" THEN OnError(s1, i) ELSE s1
  IN OnClose(s2, i, how = "clean")

\* webSocketRef.current.send(pcmData.buffer) (591): the block goes out on the
\* connection the ref holds; sentIn keeps the readyState it was sent in
SendBlock(s) ==
  LET c == s.webSocketRef
  IN [s EXCEPT !.conns[c].sentIn = @ \cup {s.conns[c].readyState},
               !.conns[c].audioAfterDisconnect = @ \/ s.conns[c].disconnects > 0]

\* variant: the block is sent whatever the readyState of the connection
OnAudioProcess_NoCheck(s) ==
  IF s.webSocketRef # 0 THEN SendBlock(s) ELSE s

\* recordingProcessor.onaudioprocess (587-593)
OnAudioProcess(s) ==
  IF IsOpen(s, s.webSocketRef) THEN SendBlock(s) ELSE s

\* the cleanup of the unmount effect (640-657)
OnUnmount(s) ==
  StopNodes([stopRecording(s) EXCEPT !.pendingResponseEnableRef = FALSE,
                                     !.mounted = FALSE])

\* -------------------------------------------------------- control messages
\* a parsed text message (WebSocketResponse); "" / FALSE = field absent
NoFields ==
  [control |-> "", action |-> "", message |-> "", type |-> "", emotion |-> "",
   transcript |-> "", is_final |-> FALSE, error |-> ""]

StartMsg ==
  [NoFields EXCEPT !.control = "response_status", !.action = "start_processing",
                   !.message = "thinking"]
EndMsg ==
  [NoFields EXCEPT !.control = "response_status", !.action = "end_processing",
                   !.message = "ready"]

InterruptionMsg == [NoFields EXCEPT !.control = "interruption"]
ErrorMsg == [NoFields EXCEPT !.error = "boom"]

\* processEmotionResult (webSocketUtils 26-32); "" = null
processEmotionResult(data) ==
  IF data.type = "emotion_result" /\ data.emotion # "" THEN data.emotion ELSE ""

\* isInterruptionSignal (webSocketUtils 39-41)
isInterruptionSignal(data) == data.control = "interruption"

\* processResponseStatus (webSocketUtils 48-70)
processResponseStatus(data) ==
  IF data.control = "response_status" /\ data.action = "start_processing"
  THEN [isStartProcessing |-> TRUE, isEndProcessing |-> FALSE,
        message |-> IF data.message # "" THEN data.message ELSE "ai-responding"]
  ELSE IF data.control = "response_status" /\ data.action = "end_processing"
  THEN [isStartProcessing |-> FALSE, isEndProcessing |-> TRUE,
        message |-> IF data.message # "" THEN data.message ELSE "speak-now"]
  ELSE [isStartProcessing |-> FALSE, isEndProcessing |-> FALSE, message |-> ""]

\* handleWebSocketMessage, response_status start_processing (465-475)
OnStartProcessing(s, message) ==
  [s EXCEPT !.responseStartTimeRef = TRUE, !.isFirstAudioChunkRef = TRUE,
            !.latencyReports = 0,
            !.responseStatusMessage = message, !.statusMessage = message,
            !.isResponseProcessing = TRUE]

\* variant: the enable is applied whatever the queue holds
OnEndProcessing_NoLatch(s, message) ==
  LET s1 == [s EXCEPT !.pendingResponseEnableRef = TRUE,
                      !.pendingResponseMessageRef = message]
  IN enableResponseProcessing(s1, s1.pendingResponseMessageRef)

\* handleWebSocketMessage, response_status end_processing (476-487)
OnEndProcessing(s, message) ==
  LET s1 == [s EXCEPT !.pendingResponseEnableRef = TRUE,
                      !.pendingResponseMessageRef = message]
  IN IF s1.audioQueueRef = <<>> /\ ~s1.isPlayingRef
     THEN enableResponseProcessing(s1, s1.pendingResponseMessageRef)
     ELSE s1

\* variant: the emotion of the message is set after the interruption is handled
OnTextMessage_EmotionLast(s, data) ==
  LET emotion == processEmotionResult(data)
      s1 == IF isInterruptionSignal(data) THEN handleInterruption(s) ELSE s
  IN IF emotion # "" THEN [s1 EXCEPT !.currentEmotion = emotion] ELSE s1

\* handleWebSocketMessage for a text message that parsed to data (448-503)
OnTextMessage(s, data) ==
  LET emotion == processEmotionResult(data)
      s1 == IF emotion # "" THEN [s EXCEPT !.currentEmotion = emotion] ELSE s
  IN IF isInterruptionSignal(data) THEN handleInterruption(s1)
     ELSE
       LET rs == processResponseStatus(data)
           s2 == IF rs.isStartProcessing THEN OnStartProcessing(s1, rs.message)
                 ELSE IF rs.isEndProcessing THEN OnEndProcessing(s1, rs.message)
                 ELSE s1
           s3 == IF data.transcript # ""
                 THEN [s2 EXCEPT !.transcript = @ + 1,
                                 !.statusMessage = UI_TEXT]
                 ELSE s2
           s4 == IF data.is_final THEN [s3 EXCEPT !.statusMessage = UI_TEXT]
                 ELSE s3
       IN IF data.error # ""
          THEN stopRecording([s4 EXCEPT !.errorMessage = ERROR_TEXT])
          ELSE s4

\* A text message as received: whether JSON.parse accepts it, and what it yields.
Json(d) == [valid |-> TRUE, value |-> d]

Garbage == [valid |-> FALSE, value |-> NoFields]

\* variant: a text that does not parse is taken for a remote error
parseWebSocketMessage_AsError(message) ==
  IF message.valid THEN [null |-> FALSE, data |-> message.value]
  ELSE [null |-> FALSE, data |-> ErrorMsg]

\* parseWebSocketMessage (webSocketUtils 12-19): the object, or null when
\* JSON.parse throws
parseWebSocketMessage(message) ==
  IF message.valid THEN [null |-> FALSE, data |-> message.value]
  ELSE [null |-> TRUE, data |-> NoFields]

\* handleWebSocketMessage for a string (445-503)
handleWebSocketText(s, message) ==
  LET parsed == parseWebSocketMessage(message)
  IN IF parsed.null THEN s ELSE OnTextMessage(s, parsed.data)

EmotionMsg == [NoFields EXCEPT !.type = "emotion_result", !.emotion = "happy"]

InterruptionEmotionMsg == [EmotionMsg EXCEPT !.control = "interruption"]

\* ----------------------------------------------------------------- actions
\* A step is taken only within the bounds on pending timers and transcript.
Act(r) ==
  /\ Len(r.enableTimers) <= MaxTimers
  /\ r.closeTimers <= MaxCloseTimers
  /\ r.transcript <= MaxTranscript
  /\ Commit(r)

\* the connections on which the peer's messages still arrive
Receiving == {c \in Sessions : conns[c].readyState \in {"OPEN", "CLOSING"}}

NextFrameId == Cardinality({i \in FrameIds : frames[i] # "new"}) + 1

\* the i-th call of startRecording; the guard is its early return (625)
StartCall(i) ==
  /\ mounted /\ ~isRecording /\ ~isConnecting
  /\ calls[i] = "idle" /\ \A j \in 1..(i - 1) : calls[j] # "idle"
  /\ Act(startRecording(Cur, i))

StartRecording == StartCall(1)

StartAgain == \E i \in 2..MaxSessions : StartCall(i)

MicGranted == \E i \in Sessions : calls[i] = "awaitMic" /\ Act(OnMicGranted(Cur, i))

MicDenied == \E i \in Sessions : calls[i] = "awaitMic" /\ Act(OnMicDenied(Cur, i))

LoopbackDone ==
  \E i \in Sessions : calls[i] = "awaitLoopback" /\ Act(ConnectStep(Cur, i))

SocketOpen ==
  \E i \in Sessions : conns[i].readyState = "CONNECTING" /\ Act(OnOpen(Cur, i))

SocketClose ==
  \E i \in Sessions, how \in {"clean", "unclean", "failed"} :
    /\ conns[i].readyState \in {"CONNECTING", "OPEN", "CLOSING"}
    /\ conns[i].readyState = "CONNECTING" => how = "failed"
    /\ Act(SocketClosed(Cur, i, how))

StopRecording == mounted /\ isRecording /\ Act(stopRecording(Cur))

Unmount == mounted /\ Act(OnUnmount(Cur))

CloseTimer == closeTimers > 0 /\ Act(OnCloseTimer(Cur))

EnableTimer == enableTimers # <<>> /\ Act(OnEnableTimer(Cur))

Receive(data) == \E c \in Receiving : Act(OnTextMessage(Cur, data))

ReceiveStart == Receive(StartMsg)

ReceiveEnd == Receive(EndMsg)

ReceiveInterruption == Receive(InterruptionMsg)

ReceiveError == Receive(ErrorMsg)

\* a binary message arrives, as long as fewer than limit have arrived
FrameArrives(limit) ==
  \E c \in Receiving, len \in FrameLens :
    /\ NextFrameId <= limit
    /\ Act(EnqueueFrame(Cur, [id |-> NextFrameId, len |-> len]))

ReceiveFrame == FrameArrives(MaxFrames)

ReceiveSessionFrame == FrameArrives(MaxSessionFrames)

FrameEnded ==
  \E id \in FrameIds :
    frames[id] \in {"playing", "halted"} /\ Act(OnEnded(Cur, id))

Resumed == \E ok \in BOOLEAN : resumeWaiters # <<>> /\ Act(OnResume(Cur, ok))

AudioProcess ==
  \E p \in Sessions : processors[p] = "live" /\ Act(OnAudioProcess(Cur))

NoConn ==
  [readyState |-> "NONE", disconnects |-> 0, closes |-> 0,
   audioAfterDisconnect |-> FALSE, sentIn |-> {}]

HookInit ==
  /\ mounted = TRUE
  /\ isSupported \in BOOLEAN
  /\ isRecording = FALSE
  /\ isConnecting = FALSE
  /\ errorMessage = ""
  /\ statusMessage = IDLE_STATUS
  /\ transcript = 0
  /\ isResponseProcessing = FALSE
  /\ responseStatusMessage = ""
  /\ latencyReports = 0
  /\ isPlayingAudio = FALSE
  /\ currentEmotion = NEUTRAL
  /\ isAudioPlaying = FALSE
  /\ audioContextState \in {"none", "suspended", "running"}
  /\ webSocketRef = 0
  /\ audioStreamRef = 0
  /\ audioProcessorRef = 0
  /\ audioQueueRef = <<>>
  /\ isPlayingRef = FALSE
  /\ pendingResponseEnableRef = FALSE
  /\ pendingResponseMessageRef = ""
  /\ responseStartTimeRef = FALSE
  /\ isFirstAudioChunkRef = TRUE
  /\ activeSourceNodes = <<>>
  /\ frames = [i \in FrameIds |-> "new"]
  /\ resumeWaiters = <<>>
  /\ started = <<>>
  /\ enableTimers = <<>>
  /\ closeTimers = 0
  /\ calls = [i \in Sessions |-> "idle"]
  /\ conns = [i \in Sessions |-> NoConn]
  /\ streams = [i \in Sessions |-> "none"]
  /\ trackStops = [i \in Sessions |-> 0]
  /\ processors = [i \in Sessions |-> "none"]
  /\ procDisconnects = [i \in Sessions |-> 0]
  /\ WEBSOCKET_URL \in {"ok", "missing", "malformed"}
  /\ scn = 0
  /\ lens = [i \in FrameIds |-> -1]
  /\ stopRan = FALSE
  /\ responding = FALSE
  /\ latchedUpTo = 0

\* the utility functions have not been called
PcmIdle == pcmIn = <<>> /\ float32Data = <<>> /\ pcmData = <<>>

\* the avatar component is mounted, its model not loaded yet
LipIdle ==
  /\ lipReady = "no-model"
  /\ dataArrayRef = <<>>
  /\ currentLipSyncValueRef = 0
  /\ ParamMouthOpenY = 0
  /\ rawValue = 0
  /\ lastTick = "none"

\* a LiveAudioProcessor as its constructor leaves it (18, 22-41)
ProcIdle ==
  /\ audioContextOk = TRUE
  /\ lastAudioValue = [kind |-> "num", n |-> 0]
  /\ returned = [kind |-> "num", n |-> 0]

UtilIdle == PcmIdle /\ LipIdle /\ ProcIdle

Init == HookInit /\ UtilIdle

\* the hook at rest
HookIdle ==
  /\ HookInit
  /\ isSupported /\ audioContextState = "running" /\ WEBSOCKET_URL = "ok"

\* One session: a single call of startRecording, the turn protocol, playback,
\* the user's stop and the unmount of the component.
Next ==
  \/ StartRecording
  \/ MicGranted
  \/ MicDenied
  \/ LoopbackDone
  \/ SocketOpen
  \/ SocketClose
  \/ StopRecording
  \/ Unmount
  \/ CloseTimer
  \/ EnableTimer
  \/ ReceiveStart
  \/ ReceiveEnd
  \/ ReceiveInterruption
  \/ ReceiveFrame
  \/ FrameEnded
  \/ Resumed

Spec == Init /\ [][Next]_vars

\* Several sessions one after the other or overlapping; of the text messages
\* only the remote error, which stops the session.
NextSessions ==
  \/ StartRecording
  \/ StartAgain
  \/ MicGranted
  \/ MicDenied
  \/ LoopbackDone
  \/ SocketOpen
  \/ SocketClose
  \/ StopRecording
  \/ CloseTimer
  \/ ReceiveError
  \/ ReceiveSessionFrame
  \/ FrameEnded
  \/ Resumed

SpecSessions == Init /\ [][NextSessions]_vars

\* The turn protocol of one session that lasts: the same handlers, with a record
\* of what was received.  scn follows Scenario (start_processing "thinking", two
\* 8000-byte frames, end_processing "ready", in this order and nothing else, no
\* failure of resume()); latchedUpTo is the number of frames received when the
\* last end_processing arrived; lens keeps the byte length of each frame.
Off(r) == [r EXCEPT !.scn = -1]

AfterText(r, data) ==
  [r EXCEPT !.scn = IF data = StartMsg /\ @ = 0 THEN 1
                    ELSE IF data = EndMsg /\ @ = 3 THEN 4 ELSE -1,
            !.latchedUpTo = IF data.action = "end_processing"
                            THEN NextFrameId - 1 ELSE @]

AfterFrame(r, len) ==
  [r EXCEPT !.scn = IF len = 8000 /\ @ \in {1, 2} THEN @ + 1 ELSE -1,
            !.lens[NextFrameId] = len]

TurnReceive(data) ==
  \E c \in Receiving : Act(AfterText(OnTextMessage(Cur, data), data))

TurnStart == TurnReceive(StartMsg)

TurnEnd == TurnReceive(EndMsg)

TurnFrame ==
  \E c \in Receiving, len \in FrameLens :
    /\ NextFrameId <= MaxFrames
    /\ Act(AfterFrame(EnqueueFrame(Cur, [id |-> NextFrameId, len |-> len]), len))

TurnResumed ==
  \E ok \in BOOLEAN :
    /\ resumeWaiters # <<>>
    /\ Act(IF ok THEN OnResume(Cur, ok) ELSE Off(OnResume(Cur, ok)))

NextTurn ==
  \/ StartRecording
  \/ MicGranted
  \/ LoopbackDone
  \/ SocketOpen
  \/ TurnStart
  \/ TurnEnd
  \/ TurnFrame
  \/ FrameEnded
  \/ TurnResumed
  \/ EnableTimer

SpecTurn == Init /\ [][NextTurn]_vars

\* a timer that was set does fire
SpecTurnFair == SpecTurn /\ WF_vars(EnableTimer)

\* The text channel of one session that lasts: texts that do not parse, emotion
\* results, interruptions that carry an emotion result, the turn protocol and
\* frames.
ReceiveRaw(message) == \E c \in Receiving : Act(handleWebSocketText(Cur, message))

ReceiveGarbage == ReceiveRaw(Garbage)

ReceiveEmotion == ReceiveRaw(Json(EmotionMsg))

ReceiveInterruptionEmotion == ReceiveRaw(Json(InterruptionEmotionMsg))

NextText ==
  \/ StartRecording
  \/ MicGranted
  \/ LoopbackDone
  \/ SocketOpen
  \/ ReceiveGarbage
  \/ ReceiveEmotion
  \/ ReceiveInterruptionEmotion
  \/ ReceiveStart
  \/ ReceiveEnd
  \/ EnableTimer
  \/ ReceiveFrame
  \/ FrameEnded
  \/ Resumed

SpecText == Init /\ [][NextText]_vars

\* Sessions that only a remote error stops: stopRecording runs from the error
\* branch of handleWebSocketMessage and from nowhere else.
ClosingCompletes ==
  \E i \in Sessions, how \in {"clean", "unclean"} :
    conns[i].readyState = "CLOSING" /\ Act(SocketClosed(Cur, i, how))

NextError ==
  \/ StartRecording
  \/ StartAgain
  \/ MicGranted
  \/ LoopbackDone
  \/ SocketOpen
  \/ SocketClose
  \/ CloseTimer
  \/ ReceiveError

SpecError == Init /\ [][NextError]_vars

\* what the browser has begun it completes: timers fire, a closing connection
\* closes, pending promises and handshakes settle
SpecErrorFair ==
  /\ SpecError
  /\ WF_vars(CloseTimer)
  /\ WF_vars(ClosingCompletes)
  /\ WF_vars(MicGranted)
  /\ WF_vars(LoopbackDone)
  /\ WF_vars(SocketOpen)

\* Starting a session with the microphone granted or refused.
NextMic ==
  \/ StartRecording
  \/ StartAgain
  \/ MicGranted
  \/ MicDenied
  \/ LoopbackDone
  \/ SocketOpen
  \/ SocketClose
  \/ StopRecording
  \/ CloseTimer

SpecMic == Init /\ [][NextMic]_vars

\* Capture: sessions started, stopped and restarted on a supporting browser
\* with a reachable endpoint, while the script processor of each delivers its
\* blocks; a connection closes once its close was requested.
NextCapture ==
  \/ StartRecording
  \/ StartAgain
  \/ MicGranted
  \/ LoopbackDone
  \/ SocketOpen
  \/ ClosingCompletes
  \/ StopRecording
  \/ CloseTimer
  \/ AudioProcess

InitCapture == HookIdle /\ UtilIdle

SpecCapture == InitCapture /\ [][NextCapture]_vars

\* A session that lasts, with binary messages delivered as ArrayBuffer or as
\* Blob.  A Blob is enqueued by the then-callback of its arrayBuffer() (519-
\* 527), which runs in a later task; the reads complete in receipt order.
OnBlobMessage(s, id) == [s EXCEPT !.frames[id] = "reading"]

ReceiveBlob ==
  \E c \in Receiving :
    NextFrameId <= MaxFrames /\ Act(OnBlobMessage(Cur, NextFrameId))

Reading == {i \in FrameIds : frames[i] = "reading"}

BlobRead ==
  \E id \in Reading, len \in FrameLens :
    /\ \A j \in Reading : id <= j
    /\ Act(EnqueueFrame(Cur, [id |-> id, len |-> len]))

NextBlob ==
  \/ StartRecording
  \/ MicGranted
  \/ LoopbackDone
  \/ SocketOpen
  \/ ReceiveStart
  \/ ReceiveEnd
  \/ ReceiveInterruption
  \/ ReceiveFrame
  \/ ReceiveBlob
  \/ BlobRead
  \/ FrameEnded
  \/ Resumed
  \/ EnableTimer

SpecBlob == Init /\ [][NextBlob]_vars

\* A session that lasts over several responses, with a record of a response
\* being under way on the peer's side.
RespondingStart ==
  \E c \in Receiving :
    Act([OnTextMessage(Cur, StartMsg) EXCEPT !.responding = TRUE])

RespondingEnd ==
  \E c \in Receiving :
    Act([OnTextMessage(Cur, EndMsg) EXCEPT !.responding = FALSE])

NextLatency ==
  \/ StartRecording
  \/ MicGranted
  \/ LoopbackDone
  \/ SocketOpen
  \/ RespondingStart
  \/ RespondingEnd
  \/ ReceiveFrame
  \/ FrameEnded
  \/ Resumed
  \/ EnableTimer

SpecLatency == Init /\ [][NextLatency]_vars

\* The turn protocol with what the browser has begun completing: a source node
\* that plays reaches its end, a pending resume() settles, a timer fires.
SpecDrainFair ==
  /\ SpecTurn
  /\ WF_vars(FrameEnded)
  /\ WF_vars(TurnResumed)
  /\ WF_vars(EnableTimer)

\* A session that lasts over several turns whose end_processing messages carry
\* different texts, so that a pending timer shows which enable scheduled it.
EndAgainMsg == [EndMsg EXCEPT !.message = "go-on"]

ReceiveEndAgain == Receive(EndAgainMsg)

NextEnable ==
  \/ StartRecording
  \/ MicGranted
  \/ LoopbackDone
  \/ SocketOpen
  \/ ReceiveStart
  \/ ReceiveEnd
  \/ ReceiveEndAgain
  \/ ReceiveFrame
  \/ FrameEnded
  \/ Resumed
  \/ EnableTimer

SpecEnable == Init /\ [][NextEnable]_vars

\* Sessions one after the other on a supporting browser with a reachable
\* endpoint, each with frames and the end of a response.
NextRestart ==
  \/ StartRecording
  \/ StartAgain
  \/ MicGranted
  \/ LoopbackDone
  \/ SocketOpen
  \/ ClosingCompletes
  \/ StopRecording
  \/ CloseTimer
  \/ ReceiveStart
  \/ ReceiveEnd
  \/ ReceiveSessionFrame
  \/ FrameEnded
  \/ EnableTimer

SpecRestart == InitCapture /\ [][NextRestart]_vars

\* ------------------------------------------------------- utils/audioUtils
\* A JavaScript number: a finite value n / den, NaN, Infinity or -Infinity.
\* Float32Array elements are kept with den = FloatDen = 2^16; such values, and
\* their products with 32767, are exact in binary floating point.
FloatDen == 65536

Float(n) == [kind |-> "num", n |-> n]
NaN == [kind |-> "nan", n |-> 0]
PosInfinity == [kind |-> "inf", n |-> 1]
NegInfinity == [kind |-> "inf", n |-> -1]

\* floor(n * 32767 / FloatDen), split so that no product passes 2^31
FloorScaled(n) ==
  (n \div FloatDen) * 32767 + ((n % FloatDen) * 32767) \div FloatDen

\* Math.floor(x * 32767) for a Float32Array element x; the result counts units
MathFloorScaled(x) ==
  IF x.kind = "num" THEN Float(FloorScaled(x.n)) ELSE x

\* Math.min(a, y) and Math.max(a, y) for an integer a
MathMin(a, y) ==
  CASE y.kind = "nan" -> y
    [] y.kind = "inf" -> IF y.n > 0 THEN Float(a) ELSE y
    [] OTHER -> IF y.n < a THEN y ELSE Float(a)

MathMax(a, y) ==
  CASE y.kind = "nan" -> y
    [] y.kind = "inf" -> IF y.n < 0 THEN Float(a) ELSE y
    [] OTHER -> IF y.n > a THEN y ELSE Float(a)

\* the store of a number into an Int16Array element (ToInt16)
ToInt16(y) ==
  IF y.kind # "num" THEN 0 ELSE ((y.n + 32768) % 65536) - 32768

\* variant: the scaled sample is stored without clipping
convertFloat32ToPCM_NoClip(data) ==
  [i \in 1..Len(data) |-> ToInt16(MathFloorScaled(data[i]))]

\* convertFloat32ToPCM (24-31)
convertFloat32ToPCM(data) ==
  [i \in 1..Len(data) |->
     ToInt16(MathMax(-32768, MathMin(32767, MathFloorScaled(data[i]))))]

\* variant: the sample is divided by 65536
convertPCMToFloat32_HalfScale(data) ==
  [i \in 1..Len(data) |-> Float(data[i] * (FloatDen \div 65536))]

\* convertPCMToFloat32 (10-17)
convertPCMToFloat32(data) ==
  [i \in 1..Len(data) |-> Float(data[i] * (FloatDen \div 32768))]

Int16 == -32768..32767

\* the float inputs examined: a coarse grid over [-2.5, 2.5], every
\* representable value near -2, -1, 0, 1 and 2, and the non-finite values
FloatInputs ==
  {Float(k * (FloatDen \div 64)) : k \in -160..160}
    \cup {Float(c * FloatDen + d) : c \in -2..2, d \in -FloatSpan..FloatSpan}
    \cup {NaN, PosInfinity, NegInfinity}

Decode ==
  /\ pcmIn # <<>> /\ float32Data = <<>>
  /\ float32Data' = convertPCMToFloat32(pcmIn)
  /\ UNCHANGED <<hookVars, lipVars, procVars, pcmIn, pcmData>>

Encode ==
  /\ float32Data # <<>> /\ pcmData = <<>>
  /\ pcmData' = convertFloat32ToPCM(float32Data)
  /\ UNCHANGED <<hookVars, lipVars, procVars, pcmIn, float32Data>>

\* an Int16Array to decode, or a Float32Array from the capture node, of one
\* element (the loops treat each element alone)
InitPcm ==
  /\ HookIdle /\ LipIdle /\ ProcIdle
  /\ pcmData = <<>>
  /\ \/ pcmIn \in {<<v>> : v \in Int16} /\ float32Data = <<>>
     \/ pcmIn = <<>> /\ float32Data \in {<<x>> : x \in FloatInputs}

NextPcm == Decode \/ Encode

SpecPcm == InitPcm /\ [][NextPcm]_vars

\* ------------------------------------------- Live2DAvatar/Live2DCanvas.jsx
\* Lip-sync values are kept as multiples of 1 / LipUnit; a product or a root
\* that falls between two multiples is rounded as noted.
LipUnit == 100

Bytes == {0, 128, 140, 255}          \* the analyser bytes examined

Buffers == [1..BufLen -> Bytes]

\* variant: the byte is taken as it is, without the zero point
Centred_Unsigned(amplitude) == amplitude

\* 128 * normalizedAmplitude: the byte with 128 as its zero point (146-147)
Centred(amplitude) == amplitude - 128

RECURSIVE SumSquares(_)
\* 128^2 * sumSquares (143-149)
SumSquares(data) ==
  IF data = <<>> THEN 0
  ELSE Centred(Head(data)) * Centred(Head(data)) + SumSquares(Tail(data))

\* the largest r in 0..LipUnit with r * r <= n
Sqrt(n) == CHOOSE r \in 0..LipUnit : r * r <= n /\ (r = LipUnit \/ n < (r + 1) * (r + 1))

\* variant: the amplified rms is written without the limit of 1.0
RawLipSync_NoLimit(data) ==
  Sqrt((25 * SumSquares(data)) \div (Len(data) * 16384)) * LipUnit

\* Math.min(1.0, rms * amplification) (150-155), rounded down:
\* rms * 5 >= 1 exactly when 25 * sum of squares >= length * 128^2
RawLipSync(data) ==
  IF 25 * SumSquares(data) >= Len(data) * 16384 THEN LipUnit
  ELSE Sqrt((LipUnit * LipUnit * 25 * SumSquares(data)) \div (Len(data) * 16384))

\* old * 0.65 + raw * (1 - 0.65) (158-160), rounded to the nearest multiple
Smooth(old, raw) == (65 * old + 35 * raw + 50) \div 100

Lip ==
  [lipReady |-> lipReady, dataArrayRef |-> dataArrayRef,
   currentLipSyncValueRef |-> currentLipSyncValueRef,
   ParamMouthOpenY |-> ParamMouthOpenY, rawValue |-> rawValue,
   lastTick |-> lastTick]

CommitLip(l) ==
  /\ lipReady' = l.lipReady
  /\ dataArrayRef' = l.dataArrayRef
  /\ currentLipSyncValueRef' = l.currentLipSyncValueRef
  /\ ParamMouthOpenY' = l.ParamMouthOpenY
  /\ rawValue' = l.rawValue
  /\ lastTick' = l.lastTick
  /\ UNCHANGED <<hookVars, pcmVars, procVars>>

\* variant: the smoothed value is kept when nothing is playing
updateLipSync_KeepsSmoothed(l, playing, data) ==
  IF l.lipReady # "ready"
  THEN [l EXCEPT !.ParamMouthOpenY = IF l.lipReady = "no-analyser" THEN 0 ELSE @,
                 !.lastTick = IF playing THEN "skipped" ELSE "idle"]
  ELSE IF playing
  THEN LET raw == RawLipSync(data)
           smoothed == Smooth(l.currentLipSyncValueRef, raw)
       IN [l EXCEPT !.dataArrayRef = data, !.rawValue = raw,
                    !.currentLipSyncValueRef = smoothed,
                    !.ParamMouthOpenY = smoothed, !.lastTick = "playing"]
  ELSE [l EXCEPT !.ParamMouthOpenY = 0, !.lastTick = "idle"]

\* updateLipSync (124-191) on an animation frame; data is what
\* getByteTimeDomainData writes when it is called
updateLipSync(l, playing, data) ==
  IF l.lipReady # "ready"            \* 126-134: the parameter is reset when
  THEN                               \* the model is there, nothing else
    [l EXCEPT !.ParamMouthOpenY = IF l.lipReady = "no-analyser" THEN 0 ELSE @,
              !.lastTick = IF playing THEN "skipped" ELSE "idle"]
  ELSE IF playing
  THEN LET raw == RawLipSync(data)
           smoothed == Smooth(l.currentLipSyncValueRef, raw)
       IN [l EXCEPT !.dataArrayRef = data, !.rawValue = raw,
                    !.currentLipSyncValueRef = smoothed,
                    !.ParamMouthOpenY = smoothed, !.lastTick = "playing"]
  ELSE [l EXCEPT !.currentLipSyncValueRef = 0, !.ParamMouthOpenY = 0,
                 !.lastTick = "idle"]

\* the model is loaded; the analyser node and its byte array are there
ModelLoaded ==
  /\ lipReady = "no-model"
  /\ CommitLip([Lip EXCEPT !.lipReady = "no-analyser"])

AnalyserReady ==
  /\ lipReady = "no-analyser"
  /\ CommitLip([Lip EXCEPT !.lipReady = "ready"])

\* the playback engine announces and withdraws playback (env.ts 268-282)
PlaybackStarts == ~isAudioPlaying /\ Act(processingAudio(Cur))

PlaybackEnds == isAudioPlaying /\ Act(clearAudio(Cur))

AnimationFrame ==
  \E data \in Buffers : CommitLip(updateLipSync(Lip, isAudioPlaying, data))

InitLip == HookIdle /\ UtilIdle

NextLip ==
  \/ ModelLoaded
  \/ AnalyserReady
  \/ PlaybackStarts
  \/ PlaybackEnds
  \/ AnimationFrame

SpecLip == InitLip /\ [][NextLip]_vars

\* ------------------------------------------------ utils/LiveAudioProcessor
\* A buffer handed to processAudioData: its whole little-endian samples, and
\* whether one more byte follows them.  The samples examined are multiples of
\* 256, so that the squares below fit 32 bits.
SampleValues == {-32768, -16384, 0, 256, 8192, 32512}

RECURSIVE SeqsUpTo(_)
SeqsUpTo(n) ==
  IF n = 0 THEN {<<>>}
  ELSE SeqsUpTo(n - 1)
         \cup {Append(q, v) : q \in {x \in SeqsUpTo(n - 1) : Len(x) = n - 1},
                               v \in SampleValues}

AudioBuffers == [samples : SeqsUpTo(MaxSamples), oddByte : BOOLEAN]

RECURSIVE SumSq256(_)
\* sum of sample * sample (92-96), in units of 256 * 256
SumSq256(samples) ==
  IF samples = <<>> THEN 0
  ELSE (Head(samples) \div 256) * (Head(samples) \div 256) + SumSq256(Tail(samples))

\* Math.min(1, Math.sqrt(sum / samples) / 32768) (99-100); 0 / 0 is NaN
Normalized(samples) ==
  IF samples = <<>> THEN NaN
  ELSE Float(Sqrt((LipUnit * LipUnit * SumSq256(samples))
                    \div (Len(samples) * 16384)))

\* last * 0.15 + normalized * (1 - 0.15) (104-105)
ProcSmooth(last, normalized) ==
  IF last.kind = "nan" \/ normalized.kind = "nan" THEN NaN
  ELSE Float((15 * last.n + 85 * normalized.n + 50) \div 100)

\* Math.max(0.0, Math.min(1.0, Math.pow(last, 0.5))) (113-116)
Mapped(last) ==
  IF last.kind = "nan" THEN NaN
  ELSE MathMax(0, MathMin(LipUnit, Float(Sqrt(LipUnit * last.n))))

Proc ==
  [audioContextOk |-> audioContextOk, lastAudioValue |-> lastAudioValue,
   returned |-> returned]

\* processAudioData (84-127)
processAudioData(q, audioData) ==
  IF ~q.audioContextOk THEN [q EXCEPT !.returned = Float(0)]
  ELSE IF audioData.oddByte     \* getInt16 past the end throws: catch, return 0
  THEN [q EXCEPT !.returned = Float(0)]
  ELSE LET last == ProcSmooth(q.lastAudioValue, Normalized(audioData.samples))
       IN [q EXCEPT !.lastAudioValue = last, !.returned = Mapped(last)]

ProcessAudioData ==
  \E audioData \in AudioBuffers :
    LET q == processAudioData(Proc, audioData)
    IN /\ lastAudioValue' = q.lastAudioValue
       /\ returned' = q.returned
       /\ UNCHANGED <<audioContextOk, hookVars, pcmVars, lipVars>>

InitProc ==
  /\ HookIdle /\ PcmIdle /\ LipIdle
  /\ audioContextOk \in BOOLEAN
  /\ lastAudioValue = Float(0)
  /\ returned = Float(0)

NextProc == ProcessAudioData

SpecProc == InitProc /\ [][NextProc]_vars

\* One session as in Next, with a record of stopRecording having run.
StopTracked ==
  mounted /\ isRecording /\ Act([stopRecording(Cur) EXCEPT !.stopRan = TRUE])

UnmountTracked == mounted /\ Act([OnUnmount(Cur) EXCEPT !.stopRan = TRUE])

NextStop ==
  \/ StartRecording
  \/ MicGranted
  \/ MicDenied
  \/ LoopbackDone
  \/ SocketOpen
  \/ SocketClose
  \/ StopTracked
  \/ UnmountTracked
  \/ CloseTimer
  \/ EnableTimer
  \/ ReceiveStart
  \/ ReceiveEnd
  \/ ReceiveInterruption
  \/ ReceiveFrame
  \/ FrameEnded
  \/ Resumed

SpecStop == Init /\ [][NextStop]_vars

\* ------------------------------------------------------------- properties
\* frames whose drain loop is suspended in playAudioChunk
LoopFrames(fr) == {i \in FrameIds : fr[i] \in {"held", "stale", "playing", "halted"}}

Playing(fr) == {i \in FrameIds : fr[i] = "playing"}

IsSuffix(q, r) == \E k \in 0..Len(r) : q = SubSeq(r, k + 1, Len(r))

Increasing(seq) == \A k \in 1..(Len(seq) - 1) : seq[k] < seq[k + 1]

QueueIds == [k \in 1..Len(audioQueueRef) |-> audioQueueRef[k].id]

\* started before anything that waits, and the waiting frames in arrival order
OrderInv ==
  /\ Increasing(started)
  /\ Increasing(QueueIds)
  /\ \A k \in 1..Len(started), j \in 1..Len(QueueIds) : started[k] < QueueIds[j]

\* the queue changes only by losing elements at its head and gaining one at its tail
QueueFifo ==
  \/ IsSuffix(audioQueueRef', audioQueueRef)
  \/ \E f \in [id : FrameIds, len : FrameLens] :
       /\ frames[f.id] = "new"
       /\ IsSuffix(audioQueueRef', Append(audioQueueRef, f))

\* C1: frames start playing in the order in which they were received: a frame
\* is appended at the tail of audioQueueRef only, the drain loop removes the
\* head only, and the queue is never reordered.
C1_ArrivalOrder == []OrderInv /\ [][QueueFifo]_vars

C1_Witness ==
  /\ started = <<1, 2, 3>>
  /\ frames[3] = "playing"

\* C2: at every instant at most one frame is actively playing and at most one
\* drain loop of processAudioQueue is active, whatever the interleaving of
\* arrivals, completions, stops, connection closes and later startRecording.
C2_OnePlaying ==
  /\ Cardinality(Playing(frames)) <= 1
  /\ Cardinality(LoopFrames(frames)) <= 1

GatingSwitches == isResponseProcessing /\ ~isResponseProcessing'

\* C3: an enable (end_processing) that arrives while frames are queued or
\* playing is latched: gating does not switch to Capturing before every frame
\* received up to that enable has been drained.
C3_LatchedUntilDrained ==
  [][GatingSwitches => \A i \in 1..latchedUpTo : frames'[i] = "done"]_vars

\* C4: at the moment gating switches to Capturing after a disable, the
\* playback queue is empty and no frame is playing.
C4_SwitchWhenDrained ==
  [][GatingSwitches => (audioQueueRef' = <<>> /\ Playing(frames') = {})]_vars

\* C5: in Scenario (start_processing "thinking", two 8000-byte frames,
\* end_processing "ready", with an audio context that plays) frame 1 plays
\* fully, then frame 2, nothing is cut or dropped, and gating switches to
\* Capturing only after both have played and the queue is empty, carrying the
\* message "ready".
C5_Scenario ==
  (scn >= 1 /\ audioContextState # "none") =>
    /\ started \in {<<>>, <<1>>, <<1, 2>>}
    /\ frames[2] = "playing" => frames[1] = "done"
    /\ \A i \in FrameIds : frames[i] \notin {"halted", "stale"}
    /\ \A i \in FrameIds : frames[i] = "done" => InSeq(started, i)
    /\ isResponseProcessing \/
         /\ scn = 4
         /\ started = <<1, 2>>
         /\ frames[1] = "done" /\ frames[2] = "done"
         /\ audioQueueRef = <<>> /\ ~isPlayingRef
         /\ statusMessage = "ready"

C5_Witness ==
  /\ scn = 4 /\ audioContextState # "none"
  /\ ~isResponseProcessing
  /\ started = <<1, 2>>
  /\ statusMessage = "ready"

\* a step that stops a playing source node while the component is mounted:
\* the handling of an interruption during playback
InterruptsPlayback ==
  mounted' /\ \E i \in FrameIds : frames[i] = "playing" /\ frames'[i] = "halted"

\* what handling an interruption does to the frames
InterruptPost ==
  /\ audioQueueRef' = <<>>
  /\ \A i \in FrameIds :
       /\ frames[i] = "playing" => frames'[i] = "halted"
       /\ frames[i] = "queued" => (frames'[i] = "done" /\ ~InSeq(started', i))

\* a frame that is done stays done: it is not started afterwards
DoneIsFinal == \A i \in FrameIds : frames[i] = "done" => frames'[i] = "done"

\* the ended event of a stopped node, with nothing received since, ends the loop
HaltedEndsIdle ==
  \A i \in FrameIds :
    (frames[i] = "halted" /\ frames'[i] = "done"
       /\ LoopFrames(frames) = {i} /\ audioQueueRef = <<>> /\ isPlayingRef)
    => (audioQueueRef' = <<>> /\ LoopFrames(frames') = {} /\ ~isPlayingRef')

\* C6: an interruption handled while frame k of n plays stops frame k, removes
\* frames k+1..n from the queue without their ever being played, and the
\* engine ends idle: queue empty, nothing playing, playing flag false.
C6_Interruption ==
  [][ /\ InterruptsPlayback => InterruptPost
      /\ DoneIsFinal
      /\ HaltedEndsIdle ]_vars

C6_Witness ==
  /\ mounted /\ audioStreamRef # 0
  /\ started = <<1, 2>>
  /\ frames[1] = "done" /\ frames[2] = "halted" /\ frames[3] = "done"
  /\ audioQueueRef = <<>>

\* the ended event of a source node that an interruption stopped
InterruptedNodeEnds ==
  mounted /\ \E i \in FrameIds : frames[i] = "halted" /\ frames'[i] = "done"

\* nothing is left that could still switch gating: no drain loop, no timer
Settled(fr, timers) == LoopFrames(fr) = {} /\ timers = <<>>

\* C7: once an interruption has been handled gating returns to Capturing,
\* whether or not an end_processing had been received: when the handler, or the
\* ended event of the node it stopped, leaves nothing behind that could still
\* switch gating, the response-processing state is cleared.
C7_InterruptionEnables ==
  [][(ReceiveInterruption \/ InterruptedNodeEnds) =>
       ((Settled(frames', enableTimers') /\ audioStreamRef' # 0)
          => ~isResponseProcessing')]_vars

\* C8: no frame received before an interruption starts playing after it, a
\* frame that was already dequeued and waits for the audio context included.
C8_NoStartAfterInterruption ==
  [][\A i \in FrameIds : frames[i] = "stale" => frames'[i] # "playing"]_vars

\* C9: a frame whose playback fails is dropped alone: the frames queued behind
\* it go on being played, so the queue never holds frames while no drain loop
\* is there to play them.
C9_FailureIsolated == LoopFrames(frames) = {} => audioQueueRef = <<>>

\* C10: a second stopRecording right after a first one of a running recording
\* is a no-op: no second "disconnect", close request or release.
C10_SecondStopNoOp ==
  (mounted /\ isRecording) =>
    stopRecording(stopRecording(Cur)) = stopRecording(Cur)

\* the deferred steps of stopRecording are over: no close timer pending, no
\* connection still closing, no startRecording call still under way
DeferredDone ==
  /\ closeTimers = 0
  /\ \A i \in Sessions :
       /\ conns[i].readyState # "CLOSING"
       /\ calls[i] \notin {"awaitMic", "awaitLoopback", "awaitWs"}

Released ==
  /\ audioStreamRef = 0
  /\ \A i \in Sessions :
       /\ streams[i] # "live"
       /\ conns[i].readyState \in {"NONE", "CLOSED"}
  /\ audioQueueRef = <<>>
  /\ closeTimers = 0
  /\ enableTimers = <<>>

\* C11: once stopRecording has run, from whatever state, and its deferred steps
\* are over, the microphone is released, the transport is closed, the playback
\* queue is empty and no close or enable timer is pending.
C11_StopReleases == (stopRan /\ DeferredDone) => Released

\* C12: "disconnect" is sent at most once on one connection, for any number
\* and timing of stopRecording calls (user stop, remote error, unmount).
C12_DisconnectOnce == \A i \in Sessions : conns[i].disconnects <= 1

\* nothing queued and no drain loop under way
IdleEngine == audioQueueRef = <<>> /\ LoopFrames(frames) = {}

\* C13: an end_processing that arrives while the queue is empty and nothing
\* plays is applied without waiting for a later drain: handling it sets the
\* 300 ms timer, and a timer that is set leads to gating being Capturing even
\* if no frame ever arrives.
C13_EnableAtIdle ==
  /\ [][(TurnEnd /\ IdleEngine /\ audioStreamRef # 0)
         => Len(enableTimers') = Len(enableTimers) + 1]_vars
  /\ (enableTimers # <<>>) ~> ~isResponseProcessing

C13_Witness ==
  /\ \A i \in FrameIds : frames[i] = "new"
  /\ pendingResponseMessageRef = "ready"
  /\ statusMessage = "ready"
  /\ ~isResponseProcessing /\ ~pendingResponseEnableRef
  /\ enableTimers = <<>>

\* C14: a disable (start_processing) leaves no latched enable behind: after it
\* is handled pendingResponseEnableRef is false, so that an enable latched
\* before the disable (latched: no timer of it is under way) is not applied
\* at the next drain.
C14_DisableDropsLatch ==
  [][(TurnStart /\ enableTimers = <<>>) => ~pendingResponseEnableRef']_vars

\* C15: after an interruption is handled currentEmotion is the neutral
\* default, also when the same message carries an emotion_result and whatever
\* the emotion was before.
C15_InterruptionNeutral ==
  [][ReceiveInterruptionEmotion => currentEmotion' = NEUTRAL]_vars

C15_Witness ==
  /\ currentEmotion = NEUTRAL
  /\ \E i \in FrameIds : frames[i] = "halted"
  /\ \E i \in FrameIds : frames[i] = "done" /\ ~InSeq(started, i)

\* an empty frame is finished in this step, by an executor that ran (the audio
\* context is running) and with no other frame failing in the same step
EmptyFrameResolves ==
  /\ audioContextState' = "running"
  /\ \E i \in FrameIds : lens'[i] = 0 /\ frames[i] # "done" /\ frames'[i] = "done"
  /\ \A j \in FrameIds :
       (frames[j] \notin {"done", "playing"} /\ frames'[j] = "done") => lens'[j] = 0

\* the finally block of the drain loop has run and found nothing left
DrainHandled ==
  /\ audioQueueRef' = <<>>
  /\ ~isPlayingRef' /\ ~isPlayingAudio'
  /\ pendingResponseEnableRef => Len(enableTimers') = Len(enableTimers) + 1

\* C16: a zero-length frame never gets a source node; when it is resolved the
\* drain loop goes on with the next queued frame, and if none is left the
\* engine is idle and the drain handling (the latched enable) has run.
C16_EmptyFrame ==
  /\ [](\A i \in FrameIds :
          lens[i] = 0 => (frames[i] \notin {"playing", "halted"} /\ ~InSeq(started, i)))
  /\ [][EmptyFrameResolves => (LoopFrames(frames') = {} => DrainHandled)]_vars

C16_Witness ==
  /\ lens = <<8000, 0, 8000>>
  /\ started = <<1, 3>>
  /\ frames = <<"done", "done", "playing">>

\* C17: a text message that is not valid JSON is dropped: handling it leaves
\* the queue, the playing state, gating, the latched enable, the emotion, the
\* transcript and the connection as they were, so that later messages are
\* handled as if it had not been received.
C17_GarbageDropped == handleWebSocketText(Cur, Garbage) = Cur

C17_Witness ==
  /\ audioQueueRef # <<>>
  /\ \E i \in FrameIds : frames[i] = "playing"
  /\ isResponseProcessing /\ pendingResponseEnableRef
  /\ currentEmotion = "happy"
  /\ \E c \in Sessions : conns[c].readyState = "OPEN"

\* C18: a message with an error field is surfaced (errorMessage set, recording
\* state cleared) and tears the session down: the connection on which
\* stopRecording sent "disconnect" is closed in the end and the microphone
\* stream of that session is released.
C18_RemoteErrorTearsDown ==
  /\ [][ReceiveError => (errorMessage' = ERROR_TEXT /\ ~isRecording')]_vars
  /\ \A i \in Sessions :
       (conns[i].disconnects > 0)
         ~> (conns[i].readyState = "CLOSED" /\ streams[i] # "live")

\* the close event of a connection that did not close cleanly
UncleanClose ==
  \E i \in Sessions, how \in {"unclean", "failed"} :
    /\ conns[i].readyState \in {"CONNECTING", "OPEN", "CLOSING"}
    /\ conns[i].readyState = "CONNECTING" => how = "failed"
    /\ Act(SocketClosed(Cur, i, how))

CaptureReleased ==
  /\ audioStreamRef' = 0 /\ audioProcessorRef' = 0
  /\ \A j \in Sessions : streams'[j] # "live" /\ processors'[j] # "live"

\* a connection comes into being only inside a call of startRecording
NoReconnect ==
  \A i \in Sessions :
    (conns[i].readyState = "NONE" /\ conns'[i].readyState # "NONE")
      => calls[i] \in {"awaitMic", "awaitLoopback"}

\* C19: when a connection closes non-cleanly the error is surfaced
\* (errorMessage set, recording and connecting cleared), the capture
\* resources are released, and no connection is opened except by a call of
\* startRecording.
C19_UncleanClose ==
  [][ /\ UncleanClose =>
           (errorMessage' = ERROR_TEXT /\ ~isRecording' /\ ~isConnecting'
              /\ CaptureReleased)
      /\ NoReconnect ]_vars

\* a call of startRecording that has ended without a microphone stream
MicFailed(i) == calls[i] = "done" /\ streams[i] = "none"

\* C20: when microphone acquisition fails (getUserMedia rejects, or the
\* browser has no support for it) startRecording ends with the error
\* surfaced and isRecording false; the call opens no connection and creates
\* no processor, so no capture frame can be sent for it.
C20_MicFailure ==
  /\ [](\A i \in Sessions :
          MicFailed(i) => (conns[i] = NoConn /\ processors[i] = "none"))
  /\ [][\A i \in Sessions :
          (~MicFailed(i) /\ MicFailed(i)')
            => (errorMessage' = ERROR_TEXT /\ ~isRecording')]_vars

\* getUserMedia was refused on a supporting browser and the call has ended
C20_Witness ==
  /\ isSupported /\ MicFailed(1)
  /\ errorMessage = ERROR_TEXT /\ ~isRecording
  /\ conns[1] = NoConn

\* call i of startRecording ends in this step with its microphone stream
\* acquired and its connection not open
OpenFails(i) ==
  /\ calls[i] \in {"awaitMic", "awaitLoopback", "awaitWs"}
  /\ calls'[i] = "done"
  /\ streams'[i] # "none"
  /\ conns'[i].readyState # "OPEN"

\* C21: when the connection of a call cannot be opened (WEBSOCKET_URL missing
\* or malformed, or the connection attempt fails) the call ends with the error
\* surfaced, isRecording and isConnecting false and no processor created; a
\* processor comes into being only with an open connection, and a call that
\* has ended without one never gets one, so no capture frame is sent.
C21_OpenFailure ==
  [][\A i \in Sessions :
       /\ OpenFails(i) =>
            (errorMessage' = ERROR_TEXT /\ ~isRecording' /\ ~isConnecting'
               /\ processors'[i] = "none")
       /\ (processors[i] = "none" /\ processors'[i] # "none")
            => (calls[i] = "awaitWs" /\ conns'[i].readyState = "OPEN")]_vars

\* a reachable endpoint was configured, the connection attempt failed and the
\* call has ended
C21_Witness ==
  /\ WEBSOCKET_URL = "ok" /\ calls[1] = "done" /\ streams[1] # "none"
  /\ conns[1].readyState = "CLOSED" /\ conns[1].closes = 0
  /\ processors[1] = "none"
  /\ errorMessage = ERROR_TEXT /\ ~isRecording /\ ~isConnecting

\* a message other than a Blob is handled
HandlesMessage ==
  ReceiveStart \/ ReceiveEnd \/ ReceiveInterruption \/ ReceiveFrame

\* C22: inbound messages take effect in receipt order: when a control message
\* or a frame is handled, every frame received before it has been put on
\* audioQueueRef, also a frame that was delivered as a Blob.
C22_ReceiptOrder == [][HandlesMessage => Reading = {}]_vars

\* a frame gets its source node in this step
FrameStarts == Len(started') > Len(started)

\* C23: the latency is reported once for a timestamp that start_processing
\* recorded, on the first frame played after it: a frame that starts while
\* the response is under way and nothing was reported yet for it reports, and
\* no timestamp is ever reported twice.
C23_LatencyOnce ==
  /\ [](latencyReports <= 1)
  /\ [][(FrameStarts /\ responding /\ latencyReports = 0)
          => latencyReports' = 1]_vars

Clamp(lo, hi, n) == IF n < lo THEN lo ELSE IF n > hi THEN hi ELSE n

\* clamp(floor(x * 32767), -32768, 32767) for a finite x = n / FloatDen
Saturated(n) == Clamp(-32768, 32767, FloorScaled(n))

\* C24: convertFloat32ToPCM maps every sample x to
\* clamp(floor(x * 32767), -32768, 32767); the result lies in [-32768, 32767]
\* for every input, and an input beyond [-1, 1] (infinite ones included) comes
\* out as 32767 or -32768 and never wraps around.
C24_Saturating ==
  \A i \in 1..Len(pcmData) :
    LET x == float32Data[i]
        y == pcmData[i]
    IN /\ y \in Int16
       /\ x.kind = "num" => y = Saturated(x.n)
       /\ (x.kind = "num" /\ x.n > FloatDen) \/ x = PosInfinity => y = 32767
       /\ (x.kind = "num" /\ x.n < -FloatDen) \/ x = NegInfinity => y = -32768

\* a sample above 1 whose scaled value does not fit 16 bits was converted
C24_Witness ==
  /\ pcmData = <<32767>>
  /\ float32Data = <<Float(2 * FloatDen)>>

\* C25: a 16-bit sample decoded by convertPCMToFloat32 and encoded again by
\* convertFloat32ToPCM comes back within 1 of its value.
C25_RoundTrip ==
  (pcmIn # <<>> /\ pcmData # <<>>)
    => \A i \in 1..Len(pcmIn) :
         pcmData[i] - pcmIn[i] \in -1..1

\* the round trip of a positive sample, which loses one unit
C25_Witness ==
  /\ pcmIn = <<32767>> /\ pcmData = <<32766>>

\* C26: an animation frame at which nothing is playing writes 0 to the mouth
\* parameter and leaves the smoothed value 0, so that the first analysis of
\* the next playback smooths from 0.
C26_IdleResets ==
  /\ [](lastTick = "idle" => (ParamMouthOpenY = 0 /\ currentLipSyncValueRef = 0))
  /\ [][(lastTick = "idle" /\ lastTick' = "playing")
          => currentLipSyncValueRef' = Smooth(0, rawValue')]_vars

\* an idle frame after a loud playback: the smoothed value it left is gone
C26_Witness ==
  /\ lipReady = "ready" /\ lastTick = "idle" /\ rawValue = LipUnit
  /\ currentLipSyncValueRef = 0 /\ ParamMouthOpenY = 0

\* C27: the value written to ParamMouthOpenY lies in [0, 1] after any sequence
\* of animation frames, whatever bytes the analyser delivers and however
\* playing and idle frames alternate; so does the smoothed value.
C27_MouthInRange ==
  /\ ParamMouthOpenY \in 0..LipUnit
  /\ currentLipSyncValueRef \in 0..LipUnit

\* full-scale buffers have driven the mouth wide open over several frames
C27_Witness ==
  /\ lastTick = "playing" /\ rawValue = LipUnit
  /\ ParamMouthOpenY > Smooth(Smooth(0, LipUnit), LipUnit)
  /\ ParamMouthOpenY <= LipUnit

Silent(data) == data # <<>> /\ \A i \in 1..Len(data) : data[i] = 128

FullScale(data) ==
  data # <<>> /\ \A i \in 1..Len(data) : data[i] = IF i % 2 = 1 THEN 0 ELSE 255

\* C28 as stated: an analysis of a buffer of 128s writes 0 to the mouth
\* parameter.
C28_SilenceWritesZero ==
  (lastTick = "playing" /\ Silent(dataArrayRef)) => ParamMouthOpenY = 0

\* C28: the RMS mapping gives the raw value 0 for a buffer in which every byte
\* is 128 and the raw value 1.0 for a buffer alternating 0 and 255; what is
\* written for the silent buffer is the smoothed value, the previous one
\* times 0.65, which is 0 when the previous smoothed value was 0.
C28_RmsMapping ==
  /\ [](lastTick = "playing" =>
          /\ Silent(dataArrayRef) => rawValue = 0
          /\ FullScale(dataArrayRef) => rawValue = LipUnit)
  /\ [][(AnimationFrame /\ lastTick' = "playing" /\ Silent(dataArrayRef'))
          => /\ ParamMouthOpenY' = Smooth(currentLipSyncValueRef, 0)
             /\ currentLipSyncValueRef = 0 => ParamMouthOpenY' = 0]_vars

\* a silent buffer analysed right after a full-scale one: raw 0, mouth open
C28_Witness ==
  /\ lastTick = "playing" /\ Silent(dataArrayRef) /\ rawValue = 0
  /\ ParamMouthOpenY = Smooth(Smooth(0, LipUnit), 0)
  /\ ParamMouthOpenY > 0

InUnit(x) == x.kind = "num" /\ x.n \in 0..LipUnit

\* C29: processAudioData returns a value in [0, 1] for every buffer, the empty
\* one included, and its smoothed state stays a number in [0, 1].
C29_ProcessorInRange == InUnit(returned) /\ InUnit(lastAudioValue)

\* the engine is Idle: the playing flag is down and no drain loop holds a frame
EngineIdle == ~isPlayingRef /\ LoopFrames(frames) = {}

\* C30: whenever the playback engine is Idle the queue is empty, and the
\* playing flag goes down (the engine leaves Draining) only with the queue
\* empty and no frame playing.
C30_IdleQueueEmpty ==
  /\ [](EngineIdle => audioQueueRef = <<>>)
  /\ [][(isPlayingRef /\ ~isPlayingRef')
          => (audioQueueRef' = <<>> /\ Playing(frames') = {})]_vars

\* C31: every frame of whole samples put on audioQueueRef leaves it again,
\* played by the drain loop (or removed by a flush), once every source node
\* that plays reaches its end and every pending resume() settles.
C31_QueuedIsDrained ==
  \A i \in FrameIds :
    (frames[i] = "queued" /\ lens[i] = 8000) ~> (frames[i] # "queued")

\* C32: stopRecording on an open connection sends "disconnect" and defers the
\* close by the 100 ms timer; once every such timer has expired, no connection
\* on which "disconnect" was sent is still open: it was closed before, or the
\* expiring timer requested its close.
C32_CloseAfterGrace ==
  closeTimers = 0 =>
    \A c \in Sessions : conns[c].disconnects > 0 => conns[c].readyState # "OPEN"

\* C34: the 100 ms timer of stopRecording requests the close only of a
\* connection on which stopRecording sent "disconnect", never of a connection
\* that was opened afterwards.
C34_TimerClosesItsOwn ==
  [][CloseTimer =>
       \A c \in Sessions :
         conns'[c].closes > conns[c].closes => conns[c].disconnects > 0]_vars

\* C33: a captured block is sent only on a connection that is OPEN at that
\* tick, never on one that is connecting, closing or closed, and a script
\* processor comes to life only in the step in which its connection opens.
C33_SendOnlyWhenOpen ==
  /\ [](\A c \in Sessions : conns[c].sentIn \subseteq {"OPEN"})
  /\ [][\A p \in Sessions :
          (processors[p] # "live" /\ processors'[p] = "live")
            => (conns[p].readyState = "CONNECTING" /\ conns'[p].readyState = "OPEN")]_vars

\* the ref holds a connection that is closing while a processor is still
\* live, and blocks have gone out on that connection before
C33_Witness ==
  /\ webSocketRef # 0
  /\ conns[webSocketRef].readyState = "CLOSING"
  /\ conns[webSocketRef].sentIn = {"OPEN"}
  /\ \E p \in Sessions : processors[p] = "live"

\* C39: on one connection no captured block is sent after "disconnect":
\* "disconnect" is the last thing the client sends on it.
C39_DisconnectIsLast ==
  \A c \in Sessions : ~conns[c].audioAfterDisconnect

\* connection i, whose close was requested, closes in this step while the ref
\* holds another, newer connection
SupersededCloses(i) ==
  /\ conns[i].readyState = "CLOSING" /\ conns'[i].readyState = "CLOSED"
  /\ webSocketRef \notin {0, i}

\* C35: the close event of a superseded connection leaves the newer session
\* alone: the ref still holds the newer connection, the microphone stream in
\* use is not stopped, the playback queue and the playing flag are untouched.
C35_SupersededClose ==
  [][\A i \in Sessions :
       SupersededCloses(i) =>
         /\ webSocketRef' = webSocketRef
         /\ audioStreamRef' = audioStreamRef /\ streams' = streams
         /\ audioQueueRef' = audioQueueRef /\ isPlayingRef' = isPlayingRef]_vars

\* C36: when a connection has closed (ws.onclose has run stopAudioStream) no
\* frame is playing any more: the source node that was playing is stopped.
C36_ClosedStopsPlayback == [][SocketClose => Playing(frames') = {}]_vars

\* the timer that fires next was set for an earlier enable than the one that
\* is latched, and no timer of the latched enable is under way
LaterEnableLatched ==
  /\ enableTimers # <<>>
  /\ pendingResponseEnableRef
  /\ \A k \in 1..Len(enableTimers) : enableTimers[k] # pendingResponseMessageRef

\* C37: an enable timer does not clear the latch of a later enable that has
\* not been applied yet: when it fires while a later end_processing is latched
\* with no timer of its own, the latch stays.
C37_TimerKeepsLaterLatch ==
  [][(EnableTimer /\ LaterEnableLatched) => pendingResponseEnableRef']_vars

\* C38: a latched enable does not survive its session: when startRecording
\* is called (no enable timer being under way) pendingResponseEnableRef is
\* false.
C38_NoLatchAtStart ==
  [][((StartRecording \/ StartAgain) /\ enableTimers = <<>>)
       => ~pendingResponseEnableRef]_vars

\* call i of startRecording has ended without a processor, its microphone
\* stream acquired
StartFailedWithMic(i) ==
  calls[i] = "done" /\ processors[i] = "none" /\ streams[i] # "none"

\* C40: after a start that failed with the microphone acquired (endpoint
\* missing or malformed, connection error, connection not open after the
\* handshake) the stream of that call is released: none of its tracks is live.
C40_FailedStartReleases ==
  \A i \in Sessions : StartFailedWithMic(i) => streams[i] # "live"

====
